---- MODULE Spec2Model ----
(***************************************************************************)
(* NodeTypeEdgeFeatureGraphCRF (pystruct/models/                           *)
(* node_type_edge_feature_graph_crf.py): layout sizes, instance            *)
(* validation, joint feature assembly and pairwise potentials.             *)
(*                                                                         *)
(* Conventions.  Node types are 1..n_types and the ordered type pair       *)
(* (typ1, typ2) has index (typ1-1)*n_types + typ2, the row-major position  *)
(* the source writes typ1*n_types+typ2 with 0-based types.  Labels keep    *)
(* the source's 0-based values; rows and columns of arrays are 1-based, so *)
(* the numpy slice a[i0:i1] is rows i0+1..i1.  A 2-D array is a record     *)
(* [nr, nc, d] (shape and rows), so that a block of shape (0, k) keeps its *)
(* column count.  None is a block whose field none is TRUE.                *)
(***************************************************************************)
EXTENDS Integers, Sequences, FiniteSets, TLC

VARIABLES
    self,   \* the model object: its attributes
    x,      \* the instance handed to the calls: (node features, edges, edge features)
    y,      \* the discrete labeling handed to joint_feature
    w,      \* the weight vector handed to _get_pairwise_potentials
    pc,     \* position of the running call
    ret,    \* outcome of the call on the discrete labeling / of the validation
    ret2,   \* outcome of joint_feature on the one-hot marginals of y
    frame   \* local variables of the call, kept for inspection

vars == <<self, x, y, w, pc, ret, ret2, frame>>

----------------------------------------------------------------------------
(* Bounds of the explored inputs *)

MaxStates == 3
MaxFeatures == 3
MaxEdgeFeatures == 2
MaxNodes == 1
MaxEdges == 1

----------------------------------------------------------------------------
(* Sequences and arrays *)

RECURSIVE SumSeq(_)
SumSeq(s) == IF s = <<>> THEN 0 ELSE s[1] + SumSeq(Tail(s))

RECURSIVE Flatten(_)
Flatten(ss) == IF ss = <<>> THEN <<>> ELSE ss[1] \o Flatten(Tail(ss))

Min(a, b) == IF a < b THEN a ELSE b

Max(a, b) == IF a < b THEN b ELSE a

\* np.cumsum
cumsum(s) == [i \in 1..Len(s) |-> SumSeq(SubSeq(s, 1, i))]

\* zip of two lists, truncated to the shorter one
zip(a, b) == [i \in 1..Min(Len(a), Len(b)) |-> <<a[i], b[i]>>]

\* np.zeros((nr, nc))
zeros(nr, nc) == [nr |-> nr, nc |-> nc, d |-> [i \in 1..nr |-> [j \in 1..nc |-> 0]]]

\* a.T
transpose(a) ==
    [nr |-> a.nc, nc |-> a.nr, d |-> [i \in 1..a.nc |-> [j \in 1..a.nr |-> a.d[j][i]]]]

\* np.dot(a, b) of two 2-D arrays
dot(a, b) ==
    [nr |-> a.nr, nc |-> b.nc,
     d |-> [i \in 1..a.nr |-> [j \in 1..b.nc |->
              SumSeq([k \in 1..a.nc |-> a.d[i][k] * b.d[k][j]])]]]

\* a[i0:i1, j0:j1].ravel(): numpy clips a slice to the array
slice_ravel(a, i0, i1, j0, j1) ==
    Flatten([i \in 1..Max(0, Min(i1, a.nr) - i0) |->
               [j \in 1..Max(0, Min(j1, a.nc) - j0) |-> a.d[i0 + i][j0 + j]]])

\* a[r0:r0+b.nr, c0:c0+b.nc] = b
assign_block(a, r0, c0, b) ==
    [a EXCEPT !.d = [i \in 1..a.nr |-> [j \in 1..a.nc |->
        IF i > r0 /\ i <= r0 + b.nr /\ j > c0 /\ j <= c0 + b.nc
        THEN b.d[i - r0][j - c0] ELSE a.d[i][j]]]]

None == [none |-> TRUE, ndim |-> 0, nr |-> 0, nc |-> 0, d |-> <<>>]

\* a present 2-D block
Block(nr, nc, F(_, _)) ==
    [none |-> FALSE, ndim |-> 2, nr |-> nr, nc |-> nc,
     d |-> [i \in 1..nr |-> [j \in 1..nc |-> F(i, j)]]]

----------------------------------------------------------------------------
(* TypedCRF: what the base class provides *)

\* _iter_type_pairs: the ordered type pairs, typ1 outer, typ2 inner
iter_type_pairs(m) ==
    [p \in 1..(m.n_types * m.n_types) |->
        <<((p - 1) \div m.n_types) + 1, ((p - 1) % m.n_types) + 1>>]

\* _n_states: total state count
n_states_total(m) == SumSeq(m.l_n_states)

\* _n_features: total node feature count
n_features_total(m) == SumSeq(m.l_n_features)

\* _l_type_startindex: first column of each type in the global state space
l_type_startindex(m) ==
    [t \in 1..m.n_types |-> SumSeq(SubSeq(m.l_n_states, 1, t - 1))]

\* _a_feature_slice_by_typ: the feature columns of each type, as (start, stop)
a_feature_slice_by_typ(m) ==
    [t \in 1..m.n_types |->
        <<SumSeq(SubSeq(m.l_n_features, 1, t - 1)), SumSeq(SubSeq(m.l_n_features, 1, t))>>]

\* states(typ1) * states(typ2) of every type pair
l_n_edge_states(m) ==
    [p \in 1..(m.n_types * m.n_types) |->
        m.l_n_states[iter_type_pairs(m)[p][1]] * m.l_n_states[iter_type_pairs(m)[p][2]]]

\* _l_edgetype_start_index: first column of each type pair among the pair states
l_edgetype_start_index(m) ==
    [p \in 1..(m.n_types * m.n_types) |-> SumSeq(SubSeq(l_n_edge_states(m), 1, p - 1))]

----------------------------------------------------------------------------
(* __init__ and _set_size_joint_feature *)

\* a_n_edge_features.ravel()
a_n_edge_features_ravel(m) == Flatten(m.a_n_edge_features)

\* a_n_edge_features.shape == (n_types, n_types)
edge_features_shape_ok(m) ==
    /\ Len(m.a_n_edge_features) = m.n_types
    /\ \A i \in 1..Len(m.a_n_edge_features) : Len(m.a_n_edge_features[i]) = m.n_types

unaries_size(m) ==
    SumSeq([i \in 1..Len(zip(m.l_n_states, m.l_n_features)) |->
              zip(m.l_n_states, m.l_n_features)[i][1] * zip(m.l_n_states, m.l_n_features)[i][2]])

pairwise_term_swapped(m, typ1, typ2) ==
    m.a_n_edge_features[typ1][typ2] * m.l_n_states[typ1] * m.l_n_states[typ1]

pairwise_term(m, typ1, typ2) ==
    m.a_n_edge_features[typ1][typ2] * m.l_n_states[typ1] * m.l_n_states[typ2]

RECURSIVE pairwise_size_loop(_, _, _)
pairwise_size_loop(m, pairs, acc) ==
    IF pairs = <<>> THEN acc
    ELSE pairwise_size_loop(m, Tail(pairs), acc + pairwise_term(m, pairs[1][1], pairs[1][2]))

set_size_joint_feature(m) ==
    IF m.l_n_features # <<>>
    THEN [m EXCEPT !.size_unaries = unaries_size(m),
                   !.size_pairwise = pairwise_size_loop(m, iter_type_pairs(m), 0),
                   !.size_joint_feature =
                       unaries_size(m) + pairwise_size_loop(m, iter_type_pairs(m), 0)]
    ELSE m

\* the attributes before construction
NewModel(T, states, features, edgefeat, std) ==
    [n_types |-> T, l_n_states |-> states, l_n_features |-> features,
     a_n_edge_features |-> edgefeat, n_edge_features_total |-> -1,
     bPW_std |-> std,
     size_unaries |-> -1, size_pairwise |-> -1, size_joint_feature |-> -1]

\* __init__: the outcome and the constructed object
init(m) ==
    IF ~edge_features_shape_ok(m)
    THEN [err |-> "ValueError", obj |-> m]
    ELSE [err |-> "",
          obj |-> set_size_joint_feature(
                     [m EXCEPT !.n_edge_features_total = SumSeq(a_n_edge_features_ravel(m))])]

----------------------------------------------------------------------------
(* Accessors of the instance x = (node features, edges, edge features) *)

\* TypedCRF._get_node_features(x, bClean): None becomes an empty block
get_node_features(m, xx, bClean) ==
    IF bClean
    THEN [t \in 1..Len(xx.nf) |->
            IF xx.nf[t].none
            THEN [none |-> FALSE, ndim |-> 2, nr |-> 0, nc |-> m.l_n_features[t], d |-> <<>>]
            ELSE xx.nf[t]]
    ELSE xx.nf

\* TypedCRF._get_edges(x, bClean): None or no edge becomes an empty (0, 2) block
get_edges(xx, bClean) ==
    IF bClean
    THEN [p \in 1..Len(xx.edges) |->
            IF xx.edges[p].none \/ xx.edges[p].nr = 0
            THEN [none |-> FALSE, ndim |-> 2, nr |-> 0, nc |-> 2, d |-> <<>>]
            ELSE xx.edges[p]]
    ELSE xx.edges

get_edge_features(xx) == xx.ef

get_edge_features_by_type(m, xx, typ1, typ2) == xx.ef[(typ1 - 1) * m.n_types + typ2]

----------------------------------------------------------------------------
(* _check_size_x *)

Ok == [err |-> "", typ1 |-> 0, typ2 |-> 0]

Raise(msg) == [err |-> msg, typ1 |-> 0, typ2 |-> 0]

RaiseTypes(msg, typ1, typ2) == [err |-> msg, typ1 |-> typ1, typ2 |-> typ2]

\* TypedCRF._check_size_x: one node feature block per type, each present block
\* with the declared number of columns
typed_check_size_x(m, xx) ==
    IF Len(xx.nf) # m.n_types
    THEN Raise("Expected one node feature array per node type")
    ELSE IF \E t \in 1..m.n_types : ~xx.nf[t].none /\ xx.nf[t].nc # m.l_n_features[t]
    THEN Raise("Bad number of node features")
    ELSE Ok

\* the presence check of one type pair, lines 108-117
check_edge_pair_no_len(edges, edge_features) ==
    IF edges.none \/ edge_features.none
    THEN IF edges.none /\ edge_features.none THEN Ok
         ELSE IF edges.none
         THEN Raise("Empty edge array but non empty edge-feature array, for same type of edge")
         ELSE Raise("Empty edge-feature array but non empty edge array, for same type of edge")
    ELSE IF edge_features.ndim # 2
    THEN Raise("Expected a 2 dimensions edge feature arrays")
    ELSE Ok

check_edge_pair(edges, edge_features) ==
    IF edges.none \/ edge_features.none
    THEN IF edges.none /\ edge_features.none THEN Ok
         ELSE IF edges.none
         THEN Raise("Empty edge array but non empty edge-feature array, for same type of edge")
         ELSE Raise("Empty edge-feature array but non empty edge array, for same type of edge")
    ELSE IF edge_features.ndim # 2
    THEN Raise("Expected a 2 dimensions edge feature arrays")
    ELSE IF edges.nr # edge_features.nr
    THEN Raise("Edge and edge feature matrices must have same size in 1st dimension")
    ELSE Ok

\* for edges, edge_features in zip(l_edges, l_edge_features)
RECURSIVE check_edge_pairs_loop(_, _)
check_edge_pairs_loop(l_edges, l_edge_features) ==
    IF l_edges = <<>> \/ l_edge_features = <<>> THEN Ok
    ELSE IF check_edge_pair(l_edges[1], l_edge_features[1]) # Ok
    THEN check_edge_pair(l_edges[1], l_edge_features[1])
    ELSE check_edge_pairs_loop(Tail(l_edges), Tail(l_edge_features))

\* the column check of one type pair, lines 121-124
check_edge_feature_size_only_fewer(m, xx, typ1, typ2) ==
    IF get_edge_features_by_type(m, xx, typ1, typ2).none THEN Ok
    ELSE IF get_edge_features_by_type(m, xx, typ1, typ2).nc < m.a_n_edge_features[typ1][typ2]
    THEN RaiseTypes("Types %d x %d: bad number of edge features", typ1, typ2)
    ELSE Ok

check_edge_feature_size(m, xx, typ1, typ2) ==
    IF get_edge_features_by_type(m, xx, typ1, typ2).none THEN Ok
    ELSE IF get_edge_features_by_type(m, xx, typ1, typ2).nc # m.a_n_edge_features[typ1][typ2]
    THEN RaiseTypes("Types %d x %d: bad number of edge features", typ1, typ2)
    ELSE Ok

\* for typ1, typ2 in self._iter_type_pairs()
RECURSIVE check_edge_feature_sizes_loop(_, _, _)
check_edge_feature_sizes_loop(m, xx, pairs) ==
    IF pairs = <<>> THEN Ok
    ELSE IF check_edge_feature_size(m, xx, pairs[1][1], pairs[1][2]) # Ok
    THEN check_edge_feature_size(m, xx, pairs[1][1], pairs[1][2])
    ELSE check_edge_feature_sizes_loop(m, xx, Tail(pairs))

check_size_x(m, xx) ==
    IF Len(get_edges(xx, FALSE)) # m.n_types * m.n_types
    THEN Raise("Expected %d edge arrays")
    ELSE IF Len(get_edge_features(xx)) # m.n_types * m.n_types
    THEN Raise("Expected %d edge feature arrays")
    ELSE IF typed_check_size_x(m, xx) # Ok
    THEN typed_check_size_x(m, xx)
    ELSE IF check_edge_pairs_loop(get_edges(xx, FALSE), get_edge_features(xx)) # Ok
    THEN check_edge_pairs_loop(get_edges(xx, FALSE), get_edge_features(xx))
    ELSE check_edge_feature_sizes_loop(m, xx, iter_type_pairs(m))

----------------------------------------------------------------------------
(* joint_feature *)

\* TypedCRF._check_size_y: the shapes of y agree with the node and edge counts of x
check_size_y(m, xx, yy, n_nodes, n_edges) ==
    IF yy.tuple
    THEN IF yy.um.nr * yy.um.nc = n_nodes * n_states_total(m) /\ yy.pw.nr = n_edges
         THEN Ok ELSE Raise("Bad marginals shape")
    ELSE IF /\ Len(yy.labels) = m.n_types
            /\ \A t \in 1..m.n_types :
                  Len(yy.labels[t]) = get_node_features(m, xx, TRUE)[t].nr
         THEN Ok ELSE Raise("Bad labeling shape")

\* unary_marginals[np.ogrid[i_start:i_stop], typ_start_index + y_typ[:]] = 1
set_unary_ones(um, i_start, i_stop, typ_start_index, y_typ) ==
    [um EXCEPT !.d = [i \in 1..um.nr |-> [j \in 1..um.nc |->
        IF i > i_start /\ i <= i_stop /\ j = typ_start_index + y_typ[i - i_start] + 1
        THEN 1 ELSE um.d[i][j]]]]

\* for node_features, typ_start_index, y_typ in zip(l_node_features, _l_type_startindex, y)
RECURSIVE unary_marginals_loop(_, _, _, _, _, _)
unary_marginals_loop(m, l_node_features, labels, t, i_start, um) ==
    IF t > Min(Len(l_node_features), Min(m.n_types, Len(labels))) THEN um
    ELSE IF l_node_features[t].none
    THEN unary_marginals_loop(m, l_node_features, labels, t + 1, i_start, um)
    ELSE unary_marginals_loop(m, l_node_features, labels, t + 1,
             i_start + l_node_features[t].nr,
             set_unary_ones(um, i_start, i_start + l_node_features[t].nr,
                            l_type_startindex(m)[t], labels[t]))

pair_state_column_typ1(m, typ1, typ2, y1, y2) == m.l_n_states[typ1] * y1 + y2

\* self.l_n_states[typ2] * y1[:] + y2[:]
pair_state_column(m, typ1, typ2, y1, y2) == m.l_n_states[typ2] * y1 + y2

\* pw[np.ogrid[i_start:i_stop], edgetype_start_index + l_n_states[typ2]*y1 + y2] = 1
set_pairwise_ones(m, pw, i_start, edges, typ1, typ2, edgetype_start_index, labels) ==
    [pw EXCEPT !.d = [i \in 1..pw.nr |-> [j \in 1..pw.nc |->
        IF /\ i > i_start
           /\ i <= i_start + edges.nr
           /\ j = edgetype_start_index
                  + pair_state_column(m, typ1, typ2,
                        labels[typ1][edges.d[i - i_start][1] + 1],
                        labels[typ2][edges.d[i - i_start][2] + 1]) + 1
        THEN 1 ELSE pw.d[i][j]]]]

\* for (typ1, typ2), edges, edgetype_start_index in zip(pairs, l_edges, starts)
RECURSIVE pairwise_marginals_loop(_, _, _, _, _, _)
pairwise_marginals_loop(m, l_edges, labels, p, i_start, pw) ==
    IF p > Min(m.n_types * m.n_types, Len(l_edges)) THEN [pw |-> pw, i_start |-> i_start]
    ELSE IF l_edges[p].none
    THEN pairwise_marginals_loop(m, l_edges, labels, p + 1, i_start, pw)
    ELSE pairwise_marginals_loop(m, l_edges, labels, p + 1, i_start + l_edges[p].nr,
             set_pairwise_ones(m, pw, i_start, l_edges[p],
                               iter_type_pairs(m)[p][1], iter_type_pairs(m)[p][2],
                               l_edgetype_start_index(m)[p], labels))

\* for (_a_feature_slice, node_features) in zip(_a_feature_slice_by_typ, l_node_features):
\* node_features.shape raises AttributeError on None
RECURSIVE all_node_features_loop(_, _, _, _, _)
all_node_features_loop(m, l_node_features, t, i_start, a) ==
    IF t > Min(m.n_types, Len(l_node_features))
    THEN [err |-> "", a |-> a, i_start |-> i_start]
    ELSE IF l_node_features[t].none
    THEN [err |-> "AttributeError", a |-> a, i_start |-> i_start]
    ELSE all_node_features_loop(m, l_node_features, t + 1, i_start + l_node_features[t].nr,
             assign_block(a, i_start, a_feature_slice_by_typ(m)[t][1], l_node_features[t]))

\* for edge_features in l_edge_features: a None block is skipped before the
\* column offset is advanced
RECURSIVE all_edge_features_loop(_, _, _, _)
all_edge_features_loop(l_edge_features, i_start, i_col_start, a) ==
    IF l_edge_features = <<>> THEN a
    ELSE IF l_edge_features[1].none
    THEN all_edge_features_loop(Tail(l_edge_features), i_start, i_col_start, a)
    ELSE all_edge_features_loop(Tail(l_edge_features),
             i_start + l_edge_features[1].nr, i_col_start + l_edge_features[1].nc,
             assign_block(a, i_start, i_col_start, l_edge_features[1]))

\* block_ravel(a, lij): the blocks between consecutive cut points, ravelled and stacked
block_ravel(a, lij) ==
    Flatten([k \in 1..(Len(lij) - 1) |->
               slice_ravel(a, lij[k][1], lij[k + 1][1], lij[k][2], lij[k + 1][2])])

\* lines 272-276
pairwise_acc(m, all_edge_features, pw) ==
    IF m.bPW_std
    THEN dot(transpose(all_edge_features), pw)
    ELSE dot(transpose(pw), all_edge_features)

\* lines 297-301: [(0,0)] + zip(L1, L2), L1 and L2 swapped unless bPW_std
pairwise_cuts(m) ==
    IF m.bPW_std
    THEN <<<<0, 0>>>> \o zip(cumsum(a_n_edge_features_ravel(m)), cumsum(l_n_edge_states(m)))
    ELSE <<<<0, 0>>>> \o zip(cumsum(l_n_edge_states(m)), cumsum(a_n_edge_features_ravel(m)))

\* line 293: [(0,0)] + zip(cumsum(l_n_states), cumsum(l_n_features))
unary_cuts(m) == <<<<0, 0>>>> \o zip(cumsum(m.l_n_states), cumsum(m.l_n_features))

Failed(e) ==
    [err |-> e, vec |-> <<>>, unary_marginals |-> zeros(0, 0), pw |-> zeros(0, 0),
     all_edge_features |-> zeros(0, 0)]

\* lines 242-316, from the marginals on
joint_feature_assemble(m, xx, n_nodes, n_edges, unary_marginals, pw) ==
    LET nodes == all_node_features_loop(m, get_node_features(m, xx, FALSE), 1, 0,
                                        zeros(n_nodes, n_features_total(m)))
    IN
    IF nodes.err # "" THEN Failed(nodes.err)
    ELSE IF nodes.i_start # n_nodes THEN Failed("AssertionError")
    ELSE
    LET unaries_acc == dot(transpose(unary_marginals), nodes.a)
        all_edge_features ==
            all_edge_features_loop(get_edge_features(xx), 0, 0,
                                   zeros(n_edges, m.n_edge_features_total))
        unaries_acc_ravelled == block_ravel(unaries_acc, unary_cuts(m))
        pairwise_acc_ravelled ==
            block_ravel(pairwise_acc(m, all_edge_features, pw), pairwise_cuts(m))
    IN
    IF Len(unaries_acc_ravelled) # m.size_unaries THEN Failed("AssertionError")
    ELSE IF Len(pairwise_acc_ravelled) # m.size_pairwise THEN Failed("AssertionError")
    ELSE IF Len(unaries_acc_ravelled \o pairwise_acc_ravelled) # m.size_joint_feature
    THEN Failed("AssertionError")
    ELSE [err |-> "", vec |-> unaries_acc_ravelled \o pairwise_acc_ravelled,
          unary_marginals |-> unary_marginals, pw |-> pw,
          all_edge_features |-> all_edge_features]

\* lines 192-240, then the assembly
joint_feature(m, xx, yy) ==
    LET n_nodes == SumSeq([t \in 1..Len(xx.nf) |-> get_node_features(m, xx, TRUE)[t].nr])
        n_edges == SumSeq([p \in 1..Len(xx.edges) |-> get_edges(xx, TRUE)[p].nr])
    IN
    IF check_size_x(m, xx) # Ok THEN Failed("ValueError")
    ELSE IF check_size_y(m, xx, yy, n_nodes, n_edges) # Ok THEN Failed("ValueError")
    ELSE IF yy.tuple
    THEN joint_feature_assemble(m, xx, n_nodes, n_edges,
             [nr |-> n_nodes, nc |-> n_states_total(m),
              d |-> [i \in 1..n_nodes |-> [j \in 1..n_states_total(m) |->
                       Flatten(yy.um.d)[(i - 1) * n_states_total(m) + j]]]],
             yy.pw)
    ELSE
    LET unary_marginals ==
            unary_marginals_loop(m, get_node_features(m, xx, FALSE), yy.labels, 1, 0,
                                 zeros(n_nodes, n_states_total(m)))
        pairs == pairwise_marginals_loop(m, get_edges(xx, FALSE), yy.labels, 1, 0,
                     zeros(n_edges, n_states_total(m) * n_states_total(m)))
    IN
    IF pairs.i_start # n_edges THEN Failed("AssertionError")
    ELSE joint_feature_assemble(m, xx, n_nodes, n_edges, unary_marginals, pairs.pw)

----------------------------------------------------------------------------
(* _get_pairwise_potentials *)

\* StructuredModel._check_size_w: w.shape == (size_joint_feature,)
check_size_w(m, ww) ==
    IF Len(ww) # m.size_joint_feature THEN Raise("ValueError") ELSE Ok

pw_steps_x_first == <<"check_size_x", "check_size_w", "slice", "reshape", "dot">>

\* the statements of lines 151-157, in their order
pw_steps == <<"check_size_w", "check_size_x", "slice", "reshape", "dot">>

\* self.n_states * self.n_features: the first position of w[...:], line 154
pairwise_slice_start(m) == n_states_total(m) * n_features_total(m)

\* len(w[start:])
pairwise_slice_len(m, ww) == Max(0, Len(ww) - pairwise_slice_start(m))

\* pairwise.reshape(self.n_edge_features, -1), line 155
reshape_ok(m, n) ==
    /\ m.n_edge_features_total # 0
    /\ n % m.n_edge_features_total = 0

\* np.dot(edge_features, pairwise).reshape(edge_features.shape[0], ...) on the
\* list x[2]: np.dot rejects the list of blocks, or the list has no shape
dot_errors == {"ValueError", "TypeError", "AttributeError"}

----------------------------------------------------------------------------
(* The explored models and instances *)

\* the value of entry k of a feature block: distinct powers of two, so that a sum
\* of entries tells which entries were added
Entry(k) == 2 ^ k

NodeBlock(t, n, nc) ==
    Block(n, nc, LAMBDA i, j : Entry(((t - 1) * MaxNodes + (i - 1)) * (MaxFeatures + 1) + (j - 1)))

\* k edges from nodes of typ1 to nodes of typ2, given n1 and n2 nodes
EdgeBlock(k, n1, n2) ==
    [none |-> FALSE, ndim |-> 2, nr |-> k, nc |-> 2,
     d |-> [j \in 1..k |-> <<(j - 1) % Max(1, n1), j % Max(1, n2)>>]]

EdgeFeatureBlock(p, k, nc) ==
    Block(k, nc, LAMBDA i, j :
        Entry(((p - 1) * MaxEdges + (i - 1)) * (MaxEdgeFeatures + 1) + (j - 1)))

\* a 1-dimensional array of k entries
Array1D(k) == [none |-> FALSE, ndim |-> 1, nr |-> k, nc |-> 0, d |-> <<>>]

NodeCount(b) == IF b.none THEN 0 ELSE b.nr

\* the labels of the nodes of a type with s states: consecutive from base
Labels(n, s, base) == [i \in 1..n |-> (base + i - 1) % s]

Discrete(labels) == [tuple |-> FALSE, labels |-> labels, um |-> zeros(0, 0), pw |-> zeros(0, 0)]

NoY == Discrete(<<>>)

NoX == [nf |-> <<>>, edges |-> <<>>, ef |-> <<>>]

NoRet == [err |-> "not called"]

NoFrame == [steps |-> <<>>, start |-> -1, len |-> -1]

\* the models of the joint feature runs: the two-type scenario of the
\* documentation, a model with a type without features and a type pair without
\* edge features, and a single-type model
Models ==
    { [T |-> 2, states |-> <<2, 3>>, features |-> <<3, 2>>, edgefeat |-> <<<<1, 2>>, <<2, 0>>>>],
      [T |-> 2, states |-> <<1, 2>>, features |-> <<1, 0>>, edgefeat |-> <<<<0, 1>>, <<1, 1>>>>],
      [T |-> 1, states |-> <<2>>, features |-> <<2>>, edgefeat |-> <<<<1>>>>] }

Constructed(c, std) == init(NewModel(c.T, c.states, c.features, c.edgefeat, std)).obj

\* the instance with nn[t] nodes of type t and kk[p] edges of type pair p, where
\* -1 stands for an absent block
MakeInstance(m, nn, kk) ==
    [nf |-> [t \in 1..m.n_types |->
               IF nn[t] < 0 THEN None ELSE NodeBlock(t, nn[t], m.l_n_features[t])],
     edges |-> [p \in 1..(m.n_types * m.n_types) |->
               IF kk[p] < 0 THEN None
               ELSE EdgeBlock(kk[p], nn[iter_type_pairs(m)[p][1]], nn[iter_type_pairs(m)[p][2]])],
     ef |-> [p \in 1..(m.n_types * m.n_types) |->
               IF kk[p] < 0 THEN None
               ELSE EdgeFeatureBlock(p, kk[p], a_n_edge_features_ravel(m)[p])]]

\* every edge joins two existing nodes
WellFormed(m, nn, kk) ==
    \A p \in 1..(m.n_types * m.n_types) :
        kk[p] > 0 => /\ nn[iter_type_pairs(m)[p][1]] > 0
                     /\ nn[iter_type_pairs(m)[p][2]] > 0

\* one label per node, within the states of its type
MakeLabeling(m, nn, base) ==
    Discrete([t \in 1..m.n_types |-> Labels(Max(0, nn[t]), m.l_n_states[t], base[t])])

LabelBases(m, nn, base) ==
    \A t \in 1..m.n_types :
        /\ base[t] < m.l_n_states[t]
        /\ nn[t] <= 0 => base[t] = 0

----------------------------------------------------------------------------
(* Construction: __init__ computes the layout sizes *)

\* the models of the layout runs: every state, feature and edge feature count
\* within the bounds, and edge feature matrices of a wrong shape
InitLayout ==
    /\ \E T \in 1..2 :
       \E st \in [1..T -> 0..MaxStates], ft \in [1..T -> 0..MaxFeatures],
          ef \in [1..T -> [1..T -> 0..MaxEdgeFeatures]] \cup [1..(T + 1) -> [1..T -> {1}]] :
            self = NewModel(T, st, ft, ef, TRUE)
    /\ x = NoX /\ y = NoY /\ w = <<>>
    /\ pc = "new" /\ ret = NoRet /\ ret2 = NoRet /\ frame = NoFrame

Construct ==
    /\ pc = "new"
    /\ self' = init(self).obj
    /\ ret' = [err |-> init(self).err]
    /\ pc' = IF init(self).err = "" THEN "ready" ELSE "failed"
    /\ UNCHANGED <<x, y, w, ret2, frame>>

SpecLayout == InitLayout /\ [][Construct]_vars

----------------------------------------------------------------------------
(* joint_feature on a discrete labeling, then on its one-hot marginals *)

\* the nodes in the global order: by type, then in their given order
GlobalNodes(xx) ==
    Flatten([t \in 1..Len(xx.nf) |-> [i \in 1..NodeCount(xx.nf[t]) |-> <<t, i>>]])

\* the edges in the global order: by type pair, then in their given order
GlobalEdges(xx) ==
    Flatten([p \in 1..Len(xx.edges) |-> [j \in 1..NodeCount(xx.edges[p]) |-> <<p, j>>]])

\* the labels of the two endpoints of edge j of type pair p
EdgeLabels(m, xx, labels, p, j) ==
    <<labels[iter_type_pairs(m)[p][1]][xx.edges[p].d[j][1] + 1],
      labels[iter_type_pairs(m)[p][2]][xx.edges[p].d[j][2] + 1]>>

\* the one-hot marginals of a discrete labeling: mass 1 on each node's label
\* column of the global state space and on each edge's label pair column
OneHotMarginals(m, xx, yy) ==
    LET nodes == GlobalNodes(xx)
        edges == GlobalEdges(xx)
        S == SumSeq(m.l_n_states)
    IN  [tuple |-> TRUE, labels |-> <<>>,
         um |-> [nr |-> Len(nodes), nc |-> S,
                 d |-> [g \in 1..Len(nodes) |-> [c \in 1..S |->
                    IF c = SumSeq(SubSeq(m.l_n_states, 1, nodes[g][1] - 1))
                           + yy.labels[nodes[g][1]][nodes[g][2]] + 1
                    THEN 1 ELSE 0]]],
         pw |-> [nr |-> Len(edges), nc |-> S * S,
                 d |-> [e \in 1..Len(edges) |-> [c \in 1..(S * S) |->
                    IF c = SumSeq(SubSeq(l_n_edge_states(m), 1, edges[e][1] - 1))
                           + m.l_n_states[iter_type_pairs(m)[edges[e][1]][2]]
                             * EdgeLabels(m, xx, yy.labels, edges[e][1], edges[e][2])[1]
                           + EdgeLabels(m, xx, yy.labels, edges[e][1], edges[e][2])[2] + 1
                    THEN 1 ELSE 0]]]]

InitJoint(m) ==
    \E nn \in [1..m.n_types -> -1..MaxNodes] :
    \E base \in [1..m.n_types -> 0..(MaxStates - 1)] :
        /\ LabelBases(m, nn, base)
        /\ \E kk \in [1..(m.n_types * m.n_types) -> -1..MaxEdges] :
              /\ WellFormed(m, nn, kk)
              /\ self = m
              /\ x = MakeInstance(m, nn, kk)
              /\ y = MakeLabeling(m, nn, base)

Init ==
    /\ \E c \in Models, std \in BOOLEAN : InitJoint(Constructed(c, std))
    /\ w = <<>>
    /\ pc = "ready" /\ ret = NoRet /\ ret2 = NoRet /\ frame = NoFrame

JointFeatureDiscrete ==
    /\ pc = "ready"
    /\ ret' = joint_feature(self, x, y)
    /\ pc' = "discrete done"
    /\ UNCHANGED <<self, x, y, w, ret2, frame>>

JointFeatureRelaxed ==
    /\ pc = "discrete done"
    /\ ret2' = joint_feature(self, x, OneHotMarginals(self, x, y))
    /\ pc' = "done"
    /\ UNCHANGED <<self, x, y, w, ret, frame>>

Next == JointFeatureDiscrete \/ JointFeatureRelaxed

Spec == Init /\ [][Next]_vars

----------------------------------------------------------------------------
(* The layout, as the documentation states it *)

\* sum over types t of states[t] * features[t]
RefUnarySize(m) == SumSeq([t \in 1..m.n_types |-> m.l_n_states[t] * m.l_n_features[t]])

\* edgefeat[t1,t2] * states[t1] * states[t2] of type pair p
RefPairSize(m, p) ==
    m.a_n_edge_features[iter_type_pairs(m)[p][1]][iter_type_pairs(m)[p][2]]
    * m.l_n_states[iter_type_pairs(m)[p][1]] * m.l_n_states[iter_type_pairs(m)[p][2]]

\* sum over the ordered type pairs
RefPairwiseSize(m) == SumSeq([p \in 1..(m.n_types * m.n_types) |-> RefPairSize(m, p)])

\* position of the first entry of type t in the unary block
RefUnaryOffset(m, t) ==
    SumSeq([u \in 1..(t - 1) |-> m.l_n_states[u] * m.l_n_features[u]])

\* position of the first entry of type pair p in the pairwise block
RefPairOffset(m, p) == SumSeq([q \in 1..(p - 1) |-> RefPairSize(m, q)])

\* cumulative edge feature offset of type pair p
RefEdgeFeatureOffset(m, p) == SumSeq(SubSeq(a_n_edge_features_ravel(m), 1, p - 1))

\* the unary entry at 0-based position pos: the sum of feature f over the nodes
\* of type t labeled s
RefUnaryEntry(m, xx, yy, pos) ==
    LET t == CHOOSE u \in 1..m.n_types :
                 /\ RefUnaryOffset(m, u) <= pos
                 /\ pos < RefUnaryOffset(m, u) + m.l_n_states[u] * m.l_n_features[u]
        r == pos - RefUnaryOffset(m, t)
        st == r \div m.l_n_features[t]
        f == r % m.l_n_features[t]
    IN  SumSeq([i \in 1..NodeCount(xx.nf[t]) |->
                  IF yy.labels[t][i] = st THEN xx.nf[t].d[i][f + 1] ELSE 0])

\* the pairwise entry at 0-based position pos of the pairwise block: the sum of
\* edge feature f over the edges of pair p whose endpoints are labeled (a, b)
RefPairwiseEntry(m, xx, yy, pos) ==
    LET p == CHOOSE q \in 1..(m.n_types * m.n_types) :
                 /\ RefPairOffset(m, q) <= pos
                 /\ pos < RefPairOffset(m, q) + RefPairSize(m, q)
        r == pos - RefPairOffset(m, p)
        f == r \div l_n_edge_states(m)[p]
        a == (r % l_n_edge_states(m)[p]) \div m.l_n_states[iter_type_pairs(m)[p][2]]
        b == (r % l_n_edge_states(m)[p]) % m.l_n_states[iter_type_pairs(m)[p][2]]
    IN  SumSeq([j \in 1..NodeCount(xx.edges[p]) |->
                  IF EdgeLabels(m, xx, yy.labels, p, j) = <<a, b>>
                  THEN xx.ef[p].d[j][f + 1] ELSE 0])

RefJointFeature(m, xx, yy) ==
    [k \in 1..(RefUnarySize(m) + RefPairwiseSize(m)) |->
        IF k <= RefUnarySize(m)
        THEN RefUnaryEntry(m, xx, yy, k - 1)
        ELSE RefPairwiseEntry(m, xx, yy, k - 1 - RefUnarySize(m))]

TotalNodes(xx) == SumSeq([t \in 1..Len(xx.nf) |-> NodeCount(xx.nf[t])])

TotalEdges(xx) == SumSeq([p \in 1..Len(xx.edges) |-> NodeCount(xx.edges[p])])

\* first row (0-based) of type pair p among the edges in the global order
EdgeRowOffset(xx, p) == SumSeq([q \in 1..(p - 1) |-> NodeCount(xx.edges[q])])

Called == pc \in {"discrete done", "done"}

----------------------------------------------------------------------------
(* Claims on joint_feature *)

\* C1: for every instance that passes _check_size_x and every valid discrete
\* labeling, joint_feature returns a vector of length size_joint_feature =
\* size_unaries + size_pairwise and no assertion fails, also with absent blocks.
C1_JointFeatureLength ==
    (Called /\ check_size_x(self, x) = Ok) =>
        /\ ret.err = ""
        /\ Len(ret.vec) = self.size_joint_feature
        /\ self.size_joint_feature = self.size_unaries + self.size_pairwise

\* C3: joint_feature on a discrete labeling and joint_feature on the one-hot
\* marginals of that labeling have the same outcome, element by element.
C3_DiscreteEqualsOneHot ==
    pc = "done" => (ret.err = ret2.err /\ ret.vec = ret2.vec)

C3_Witness ==
    /\ pc = "done" /\ ret.err = "" /\ ret2.err = ""
    /\ TotalEdges(x) >= 2
    /\ \E t \in 1..self.n_types : NodeCount(x.nf[t]) > 0 /\ y.labels[t][1] > 0
    /\ \E k \in 1..Len(ret.vec) : k > self.size_unaries /\ ret.vec[k] > 0

\* C6: a type pair without edges, empty or absent, adds no row to the pairwise
\* activation matrix nor to the stacked edge feature matrix, and the edge
\* features of every present type pair p fill exactly the columns from the
\* cumulative edge feature offset of p on, in the rows of p. Stated of the
\* calls that return a vector; C1 is about the others.
C6_EdgeFeatureColumns ==
    (Called /\ ret.err = "") =>
        /\ ret.pw.nr = TotalEdges(x)
        /\ ret.all_edge_features.nr = TotalEdges(x)
        /\ \A p \in 1..Len(x.ef) : ~x.ef[p].none =>
              \A j \in 1..x.ef[p].nr : \A c \in 1..ret.all_edge_features.nc :
                  ret.all_edge_features.d[EdgeRowOffset(x, p) + j][c] =
                      IF /\ c > RefEdgeFeatureOffset(self, p)
                         /\ c <= RefEdgeFeatureOffset(self, p) + a_n_edge_features_ravel(self)[p]
                      THEN x.ef[p].d[j][c - RefEdgeFeatureOffset(self, p)]
                      ELSE 0

\* C8: with the standard multiplication direction, joint_feature of a valid
\* instance and labeling is the vector the layout defines: per type, state and
\* feature the sum of the feature over the nodes so labeled, then per type pair,
\* edge feature and state pair the sum of the edge feature over the edges so
\* labeled. Stated of the calls that return a vector; C1 is about the others.
C8_JointFeatureIsLayoutVector ==
    (Called /\ self.bPW_std /\ check_size_x(self, x) = Ok /\ ret.err = "") =>
        ret.vec = RefJointFeature(self, x, y)

\* the pairwise blocks of alt are the transposes of those of std, at the same
\* offsets, and the unary portions are equal
TransposedBlocks(m, std, alt) ==
    /\ Len(alt.vec) = m.size_joint_feature
    /\ Len(std.vec) = m.size_joint_feature
    /\ SubSeq(alt.vec, 1, m.size_unaries) = SubSeq(std.vec, 1, m.size_unaries)
    /\ \A p \in 1..(m.n_types * m.n_types) :
         \A f \in 0..(a_n_edge_features_ravel(m)[p] - 1) :
           \A k \in 0..(l_n_edge_states(m)[p] - 1) :
             alt.vec[m.size_unaries + RefPairOffset(m, p)
                     + k * a_n_edge_features_ravel(m)[p] + f + 1]
             = std.vec[m.size_unaries + RefPairOffset(m, p)
                       + f * l_n_edge_states(m)[p] + k + 1]

\* C10: with the alternate multiplication direction joint_feature of a valid
\* instance and labeling still returns a vector of length size_joint_feature
\* with the same unary portion, and every type pair's block, at the same
\* offsets, is the transpose of the standard one.
C10_AlternateDirectionTransposes ==
    (pc = "discrete done" /\ ~self.bPW_std /\ check_size_x(self, x) = Ok) =>
        /\ ret.err = ""
        /\ TransposedBlocks(self, joint_feature([self EXCEPT !.bPW_std = TRUE], x, y), ret)

\* Whatever the instance, the two directions have the same outcome: the same
\* error, or two vectors related as C10 states.
DirectionSwitchRelation ==
    (pc = "discrete done" /\ ~self.bPW_std) =>
        /\ ret.err = joint_feature([self EXCEPT !.bPW_std = TRUE], x, y).err
        /\ ret.err = "" =>
              TransposedBlocks(self, joint_feature([self EXCEPT !.bPW_std = TRUE], x, y), ret)

----------------------------------------------------------------------------
(* _check_size_x on well-formed and ill-formed instances *)

\* the edge block of option o: absent, empty, or MaxEdges edges
OptionEdges(o) ==
    IF o \div 6 = 0 THEN None
    ELSE EdgeBlock((o \div 6 - 1) * MaxEdges, 1, 1)

\* the edge feature block of option o for type pair p with nc declared features:
\* absent, or 0 or MaxEdges rows of nc or nc+1 columns, or 1-dimensional
OptionEdgeFeatures(o, p, nc) ==
    CASE o % 6 = 0 -> None
      [] o % 6 = 1 -> EdgeFeatureBlock(p, 0, nc)
      [] o % 6 = 2 -> EdgeFeatureBlock(p, 0, nc + 1)
      [] o % 6 = 3 -> EdgeFeatureBlock(p, MaxEdges, nc)
      [] o % 6 = 4 -> EdgeFeatureBlock(p, MaxEdges, nc + 1)
      [] OTHER -> Array1D(MaxEdges)

\* the instance with option oo[p] for type pair p; the shape is "ok" or names
\* what else is wrong or unusual in the instance
OptionInstance(m, oo, shape) ==
    [nf |-> [t \in 1..m.n_types |->
               IF shape = "absent nodes" /\ t = m.n_types THEN None
               ELSE IF shape = "bad node features" /\ t = m.n_types
               THEN NodeBlock(t, MaxNodes, m.l_n_features[t] + 1)
               ELSE NodeBlock(t, MaxNodes, m.l_n_features[t])],
     edges |-> [p \in 1..(m.n_types * m.n_types - (IF shape = "missing edges" THEN 1 ELSE 0))
                  |-> OptionEdges(oo[p])],
     ef |-> [p \in 1..(m.n_types * m.n_types - (IF shape = "missing edge features" THEN 1 ELSE 0))
                  |-> OptionEdgeFeatures(oo[p], p, a_n_edge_features_ravel(m)[p])]]

\* the options with both blocks absent, both present and consistent, one absent,
\* a wrong column count
FewOptions == {0, 15, 3, 12, 16}

InitValidate ==
    /\ \E c \in Models : c.features[1] > 1 /\ self = Constructed(c, TRUE)
    /\ \/ \E oo \in [1..(self.n_types * self.n_types) -> 0..17] :
             x = OptionInstance(self, oo, "ok")
       \/ \E oo \in [1..(self.n_types * self.n_types) -> FewOptions] :
          \E shape \in {"absent nodes", "bad node features", "missing edges",
                        "missing edge features"} :
             x = OptionInstance(self, oo, shape)
    /\ y = NoY /\ w = <<>>
    /\ pc = "ready" /\ ret = NoRet /\ ret2 = NoRet /\ frame = NoFrame

CheckSizeX ==
    /\ pc = "ready"
    /\ ret' = check_size_x(self, x)
    /\ pc' = "done"
    /\ UNCHANGED <<self, x, y, w, ret2, frame>>

SpecValidate == InitValidate /\ [][CheckSizeX]_vars

----------------------------------------------------------------------------
(* _get_pairwise_potentials, statement by statement *)

WeightVector(n) == [i \in 1..n |-> i]

InitPotentials ==
    /\ \E c \in Models :
       \E nn \in [1..c.T -> -1..MaxNodes], kk \in [1..(c.T * c.T) -> -1..MaxEdges] :
       \E bad \in BOOLEAN :
            /\ WellFormed(Constructed(c, TRUE), nn, kk)
            /\ self = Constructed(c, TRUE)
            /\ x = IF bad
                   THEN [MakeInstance(self, nn, kk) EXCEPT !.ef[1] = Array1D(1)]
                   ELSE MakeInstance(self, nn, kk)
    /\ \E n \in {self.size_joint_feature - 1, self.size_joint_feature,
                 self.size_joint_feature + 1} : w = WeightVector(n)
    /\ y = NoY
    /\ pc = pw_steps[1] /\ ret = NoRet /\ ret2 = NoRet /\ frame = NoFrame

\* the statement after a statement that did not raise
pw_after(step) ==
    IF \E i \in 1..(Len(pw_steps) - 1) : pw_steps[i] = step
    THEN pw_steps[(CHOOSE i \in 1..(Len(pw_steps) - 1) : pw_steps[i] = step) + 1]
    ELSE "returned"

Raised(e, step) == [err |-> e, at |-> step]

PWCheckSizeW ==
    /\ pc = "check_size_w"
    /\ frame' = [frame EXCEPT !.steps = Append(@, pc)]
    /\ IF check_size_w(self, w) # Ok
       THEN pc' = "raised" /\ ret' = Raised("ValueError", pc)
       ELSE pc' = pw_after(pc) /\ ret' = ret
    /\ UNCHANGED <<self, x, y, w, ret2>>

PWCheckSizeX ==
    /\ pc = "check_size_x"
    /\ frame' = [frame EXCEPT !.steps = Append(@, pc)]
    /\ IF check_size_x(self, x) # Ok
       THEN pc' = "raised" /\ ret' = Raised("ValueError", pc)
       ELSE pc' = pw_after(pc) /\ ret' = ret
    /\ UNCHANGED <<self, x, y, w, ret2>>

PWSlice ==
    /\ pc = "slice"
    /\ frame' = [steps |-> Append(frame.steps, pc),
                 start |-> pairwise_slice_start(self),
                 len |-> pairwise_slice_len(self, w)]
    /\ pc' = pw_after(pc)
    /\ UNCHANGED <<self, x, y, w, ret, ret2>>

PWReshape ==
    /\ pc = "reshape"
    /\ frame' = [frame EXCEPT !.steps = Append(@, pc)]
    /\ IF ~reshape_ok(self, frame.len)
       THEN pc' = "raised" /\ ret' = Raised("ValueError", pc)
       ELSE pc' = pw_after(pc) /\ ret' = ret
    /\ UNCHANGED <<self, x, y, w, ret2>>

PWDot ==
    /\ pc = "dot"
    /\ frame' = [frame EXCEPT !.steps = Append(@, pc)]
    /\ \E e \in dot_errors : ret' = Raised(e, pc)
    /\ pc' = "raised"
    /\ UNCHANGED <<self, x, y, w, ret2>>

NextPotentials == PWCheckSizeW \/ PWCheckSizeX \/ PWSlice \/ PWReshape \/ PWDot

SpecPotentials == InitPotentials /\ [][NextPotentials]_vars

----------------------------------------------------------------------------
(* Claim on the layout sizes *)

\* C2: construction sets size_unaries to the sum over types of states*features,
\* size_pairwise to the sum over ordered type pairs of edgefeat*states*states and
\* size_joint_feature to their sum, all non-negative; a type without states or
\* without features adds nothing to size_unaries; states [2,3], features [3,2]
\* and edge features [[1,2],[2,0]] give 12, 28 and 40.
C2_LayoutSizes ==
    pc = "ready" =>
        /\ self.size_unaries = RefUnarySize(self)
        /\ self.size_pairwise = RefPairwiseSize(self)
        /\ self.size_joint_feature = self.size_unaries + self.size_pairwise
        /\ self.size_unaries >= 0 /\ self.size_pairwise >= 0
        /\ \A t \in 1..self.n_types :
              (self.l_n_states[t] = 0 \/ self.l_n_features[t] = 0) =>
                  self.size_unaries =
                      SumSeq([u \in 1..self.n_types |->
                                IF u = t THEN 0 ELSE self.l_n_states[u] * self.l_n_features[u]])
        /\ ( /\ self.l_n_states = <<2, 3>> /\ self.l_n_features = <<3, 2>>
             /\ self.a_n_edge_features = <<<<1, 2>>, <<2, 0>>>> ) =>
               ( /\ self.size_unaries = 12 /\ self.size_pairwise = 28
                 /\ self.size_joint_feature = 40 )

C2_Witness ==
    /\ pc = "ready"
    /\ self.l_n_states = <<2, 3>> /\ self.l_n_features = <<3, 2>>
    /\ self.a_n_edge_features = <<<<1, 2>>, <<2, 0>>>>
    /\ self.size_joint_feature = 40

----------------------------------------------------------------------------
(* Claims on _check_size_x *)

NonEmpty(b) == ~b.none /\ b.nr > 0

\* the instance has one block per type and per type pair, and the node feature
\* blocks pass the node-only validation
NodesAndCountsOk(m, xx) ==
    /\ Len(xx.edges) = m.n_types * m.n_types
    /\ Len(xx.ef) = m.n_types * m.n_types
    /\ typed_check_size_x(m, xx) = Ok

\* both blocks of type pair p absent, or both present with equal row counts
PairPresenceOk(xx, p) ==
    \/ xx.edges[p].none /\ xx.ef[p].none
    \/ /\ ~xx.edges[p].none /\ ~xx.ef[p].none
       /\ xx.ef[p].ndim = 2 /\ xx.ef[p].nr = xx.edges[p].nr

\* a present edge feature block of type pair p has the declared column count
PairColumnsOk(m, xx, p) ==
    (~xx.ef[p].none /\ xx.ef[p].ndim = 2) => xx.ef[p].nc = a_n_edge_features_ravel(m)[p]

ExactlyOneAbsent(xx, p) == xx.edges[p].none # xx.ef[p].none

EmptyEdgesError == Raise("Empty edge array but non empty edge-feature array, for same type of edge")

EmptyEdgeFeaturesError ==
    Raise("Empty edge-feature array but non empty edge array, for same type of edge")

\* C4, amended: on an instance with one block per type and type pair whose node
\* blocks pass the node-only validation, _check_size_x fails whenever some type
\* pair has a non-empty edge block with an empty or absent edge feature block,
\* or the converse; when exactly one block of a pair is absent and every pair
\* before it passes its presence check, the error tells which block was absent,
\* and that error is raised for no other instance; and the check succeeds
\* exactly when every pair has both blocks absent or both present with equal
\* row counts and the declared column count.
C4_EdgeBlocksPaired ==
    (pc = "done" /\ NodesAndCountsOk(self, x)) =>
        /\ (\E p \in 1..Len(x.ef) :
               \/ NonEmpty(x.edges[p]) /\ ~NonEmpty(x.ef[p])
               \/ NonEmpty(x.ef[p]) /\ ~NonEmpty(x.edges[p])) => ret # Ok
        /\ \A p \in 1..Len(x.ef) :
              (ExactlyOneAbsent(x, p) /\ \A q \in 1..(p - 1) : PairPresenceOk(x, q)) =>
                  ret = IF x.edges[p].none THEN EmptyEdgesError ELSE EmptyEdgeFeaturesError
        /\ ret = EmptyEdgesError => \E p \in 1..Len(x.ef) : x.edges[p].none /\ ~x.ef[p].none
        /\ ret = EmptyEdgeFeaturesError =>
              \E p \in 1..Len(x.ef) : x.ef[p].none /\ ~x.edges[p].none
        /\ ret = Ok <=>
              \A p \in 1..Len(x.ef) : PairPresenceOk(x, p) /\ PairColumnsOk(self, x, p)

\* C4 as claimed: the error of every instance with a pair of which exactly
\* one block is absent tells, for such a pair, which block it was.
C4_Original ==
    (pc = "done" /\ NodesAndCountsOk(self, x)) =>
        /\ (\E p \in 1..Len(x.ef) :
               \/ NonEmpty(x.edges[p]) /\ ~NonEmpty(x.ef[p])
               \/ NonEmpty(x.ef[p]) /\ ~NonEmpty(x.edges[p])) => ret # Ok
        /\ (\E p \in 1..Len(x.ef) : ExactlyOneAbsent(x, p)) =>
              \E p \in 1..Len(x.ef) :
                  /\ ExactlyOneAbsent(x, p)
                  /\ ret = IF x.edges[p].none THEN EmptyEdgesError ELSE EmptyEdgeFeaturesError
        /\ (\A p \in 1..Len(x.ef) : PairPresenceOk(x, p) /\ PairColumnsOk(self, x, p))
              => ret = Ok

C4_Witness ==
    /\ pc = "done" /\ NodesAndCountsOk(self, x)
    /\ ret = EmptyEdgeFeaturesError
    /\ \E p \in 1..Len(x.ef) :
          /\ NonEmpty(x.edges[p]) /\ x.ef[p].none
          /\ \E q \in 1..(p - 1) : NonEmpty(x.edges[q]) /\ NonEmpty(x.ef[q])

\* C5, amended: _check_size_x fails whenever a present edge feature block has a
\* column count other than the declared one of its type pair; the error names
\* the first such type pair, in row-major order, when the instance passes the
\* checks made before (block counts, node validation, presence, dimension and
\* row count of every pair), and an error naming a type pair is raised only for
\* a pair with a wrong column count.
C5_EdgeFeatureColumnsChecked ==
    pc = "done" =>
        /\ (\E p \in 1..Len(x.ef) : ~PairColumnsOk(self, x, p)) => ret # Ok
        /\ NodesAndCountsOk(self, x) =>
            \A p \in 1..Len(x.ef) :
              ( /\ ~PairColumnsOk(self, x, p)
                /\ \A q \in 1..Len(x.ef) : PairPresenceOk(x, q)
                /\ \A q \in 1..(p - 1) : PairColumnsOk(self, x, q) ) =>
                  ret = RaiseTypes("Types %d x %d: bad number of edge features",
                                   iter_type_pairs(self)[p][1], iter_type_pairs(self)[p][2])
        /\ ret.typ1 # 0 =>
              /\ ret.typ1 \in 1..self.n_types /\ ret.typ2 \in 1..self.n_types
              /\ ~PairColumnsOk(self, x, (ret.typ1 - 1) * self.n_types + ret.typ2)

\* C5 as claimed: the error of every instance with a wrong column count names
\* the type pair of a block with a wrong column count.
C5_Original ==
    (pc = "done" /\ NodesAndCountsOk(self, x)) =>
        ((\E p \in 1..Len(x.ef) : ~PairColumnsOk(self, x, p)) =>
            \E p \in 1..Len(x.ef) :
                /\ ~PairColumnsOk(self, x, p)
                /\ ret = RaiseTypes("Types %d x %d: bad number of edge features",
                                    iter_type_pairs(self)[p][1], iter_type_pairs(self)[p][2]))

C5_Witness ==
    /\ pc = "done"
    /\ ret = RaiseTypes("Types %d x %d: bad number of edge features", 2, 1)
    /\ NonEmpty(x.ef[3]) /\ x.ef[3].nc # self.a_n_edge_features[2][1]
    /\ NonEmpty(x.ef[1]) /\ x.ef[1].nc = self.a_n_edge_features[1][1]

----------------------------------------------------------------------------
(* Claims on _get_pairwise_potentials *)

\* C7: with a weight vector whose length is not size_joint_feature,
\* _get_pairwise_potentials raises from the length check, before the instance
\* is validated and before any slice, reshape or dot product, and returns
\* nothing.
C7_WeightLengthCheckedFirst ==
    Len(w) # self.size_joint_feature =>
        /\ pc \in {"check_size_w", "raised"}
        /\ frame.steps \in {<<>>, <<"check_size_w">>}
        /\ pc = "raised" =>
              /\ frame.steps = <<"check_size_w">>
              /\ ret = Raised("ValueError", "check_size_w")

C7_Witness ==
    /\ pc = "raised"
    /\ Len(w) # self.size_joint_feature
    /\ check_size_x(self, x) = Ok
    /\ TotalEdges(x) > 0
    /\ ret = Raised("ValueError", "check_size_w")

\* the potentials of the layout: for every edge, in the global order, the
\* states(typ1) x states(typ2) matrix of the dot products of the edge's features
\* with the weights of (pair, feature, state a, state b)
RefPotentials(m, xx, ww) ==
    [e \in 1..Len(GlobalEdges(xx)) |->
        LET p == GlobalEdges(xx)[e][1]
            j == GlobalEdges(xx)[e][2]
            s2 == m.l_n_states[iter_type_pairs(m)[p][2]]
        IN  [a \in 1..m.l_n_states[iter_type_pairs(m)[p][1]] |-> [b \in 1..s2 |->
               SumSeq([f \in 1..xx.ef[p].nc |->
                  xx.ef[p].d[j][f]
                  * ww[RefUnarySize(m) + RefPairOffset(m, p)
                       + (f - 1) * l_n_edge_states(m)[p] + (a - 1) * s2 + b]])]]]

\* C9: _get_pairwise_potentials reads the weights from position size_unaries on
\* and returns, for every edge in the order joint_feature uses, the matrix of
\* the dot products of the edge's features with the weights the layout assigns
\* to its type pair.
C9_PotentialsFollowLayout ==
    (pc \in {"raised", "returned"} /\ Len(w) = self.size_joint_feature
        /\ check_size_x(self, x) = Ok) =>
        /\ frame.start = self.size_unaries
        /\ pc = "returned"
        /\ ret.potentials = RefPotentials(self, x, w)

====
